---- MODULE Spec2Model ----
(***************************************************************************)
(* The GitHub OAuth proxy for Decap CMS of renso-foundation.               *)
(*                                                                         *)
(* The repository holds two variants of the serverless handler:            *)
(*   _A  src/api/auth.js        (lines 1-80)                               *)
(*   _B  src/unnamed/part_000                                              *)
(* A definition ending in _A or _B models that file's code; the deployed   *)
(* variant is fixed at start-up (variable variant).                        *)
(*                                                                         *)
(* Texts that the handler only passes along (query parameters, headers,    *)
(* URLs) are TLA+ strings.  Texts that the served page's script processes  *)
(* character by character (the provider's access_token, error and          *)
(* error_description) are sequences of characters, so that JSON.stringify  *)
(* and the evaluation of a JavaScript string literal are computed.         *)
(***************************************************************************)
EXTENDS Integers, Sequences, FiniteSets, TLC

(* ----------------------------- bounds --------------------------------- *)

\* Longest access_token / error / error_description the provider returns.
MaxLen == 1
\* Most message events the popup document handles.
MaxRecv == 2
\* The number of times a client sends an answered callback request again.
MaxReplays == 2

(* ------------------------- JavaScript values --------------------------- *)

\* undefined / null / a missing header or query parameter (string-typed data).
Absent == "#absent"
\* undefined for character-sequence data (a field missing from the JSON).
Undefined == <<"#undefined">>

\* JavaScript truthiness of a string-or-undefined value.
Truthy(v) == v # Absent /\ v # ""
TruthyText(t) == t # Undefined /\ t # <<>>

\* `${v}` / String(v) of a string-or-undefined value.
Str(v) == IF v = Absent THEN "undefined" ELSE v
\* `${t}` of a character sequence.
Interp(t) == IF t = Undefined THEN <<"undefined">> ELSE t

DQ == "\""
SQ == "'"
BS == "\\"

\* Characters of provider-supplied text: one ordinary character per field
\* (so that the origin of a character in a page is recognisable) and the
\* quote characters that matter to the script the field is pasted into: the
\* double quote (escaped by JSON.stringify; ends a double-quoted literal, as
\* part_000 uses for the error text) and the single quote (not escaped; ends
\* a single-quoted literal, as auth.js uses for the error and the token).
TokenChars == {"t", DQ, SQ}
ErrorChars == {"e", SQ}
DescrChars == {"d", DQ}

Texts(chars) == UNION {[1..n -> chars] : n \in 0..MaxLen}

Range(s) == {s[k] : k \in 1..Len(s)}

\* t occurs in s as a contiguous run of characters.
Contains(s, t) ==
  \E k \in 0..(Len(s) - Len(t)) : \A j \in 1..Len(t) : s[k + j] = t[j]

(* ---------------- JSON.stringify and JS string literals ---------------- *)

RECURSIVE JSONEscape(_)
\* The inside of the JSON text of a string: " and \ get a backslash.
JSONEscape(s) ==
  IF s = <<>> THEN <<>>
  ELSE (IF Head(s) \in {DQ, BS} THEN <<BS, Head(s)>> ELSE <<Head(s)>>)
       \o JSONEscape(Tail(s))

\* JSON.stringify of a string or undefined.
JSONStringify(t) ==
  IF t = Undefined THEN Undefined ELSE <<DQ>> \o JSONEscape(t) \o <<DQ>>

\* JSON.stringify({ token: t, provider: 'github' }): an undefined member is
\* left out.
JSONStringifyTokenObj(t) ==
  IF t = Undefined
  THEN <<"{", DQ, "provider", DQ, ":", DQ, "github", DQ, "}">>
  ELSE <<"{", DQ, "token", DQ, ":">> \o JSONStringify(t)
       \o <<",", DQ, "provider", DQ, ":", DQ, "github", DQ, "}">>

RECURSIVE LiteralOK(_, _)
\* Whether src, written between two q quotes in a script, is one complete
\* string literal: no unescaped q inside it and no backslash at its end
\* (which would escape the closing quote).  Otherwise the script is a
\* SyntaxError and none of it runs.
LiteralOK(src, q) ==
  IF src = <<>> THEN TRUE
  ELSE IF Head(src) = BS THEN Len(src) >= 2 /\ LiteralOK(Tail(Tail(src)), q)
  ELSE IF Head(src) = q THEN FALSE
  ELSE LiteralOK(Tail(src), q)

RECURSIVE LiteralValue(_)
\* The string a well-formed literal evaluates to: a backslash is dropped and
\* the character after it taken as it is (the model's backslashes stand
\* before " or \ only).
LiteralValue(src) ==
  IF src = <<>> THEN <<>>
  ELSE IF Head(src) = BS THEN <<src[2]>> \o LiteralValue(Tail(Tail(src)))
  ELSE <<Head(src)>> \o LiteralValue(Tail(src))

(* --------------------------- configuration ---------------------------- *)

DefaultOrigin == "https://renso-foundation.vercel.app"

\* Hosts Vercel assigns to single deployments (process.env.VERCEL_URL).
DeployHosts == {Absent, "renso-foundation-a1b2.vercel.app"}
\* process.env.PRODUCTION_URL as the operator sets it (read by _B only).
ProductionUrls == {Absent, "https://cms.rensofoundation.ca"}

AuthorizeEndpoint == "https://github.com/login/oauth/authorize"
TokenEndpoint == "https://github.com/login/oauth/access_token"

\* const ORIGIN of src/api/auth.js.
ORIGIN_A(e) ==
  IF Truthy(e.VERCEL_URL) THEN "https://" \o e.VERCEL_URL ELSE DefaultOrigin

\* const ORIGIN of src/unnamed/part_000.
ORIGIN_B(e) ==
  IF Truthy(e.PRODUCTION_URL) THEN e.PRODUCTION_URL ELSE DefaultOrigin

\* const CALLBACK = `${ORIGIN}/api/auth` of part_000.
CALLBACK_B(e) == ORIGIN_B(e) \o "/api/auth"

(* ------------------------------ requests ------------------------------ *)

\* Authorization codes: a callback's code was issued by the provider
\* (issued[code] is set) or made up by the caller (it is not).
Codes == {"c1"}
CodeParams == {Absent, ""} \cup Codes
StateParams == {Absent, "", "s1"}
\* crypto.randomUUID() results.
UUIDs == {"uuid-1", "uuid-2"}

\* Header values: a request through one proxy, through none, and through a
\* chain of proxies (which yields a comma-separated x-forwarded-proto).
ForwardedHosts == {Absent, "renso-foundation.vercel.app"}
Hosts == {Absent, "renso-foundation.vercel.app"}
ForwardedProtos == {Absent, "https,http"}

Requests ==
  [code : CodeParams, state : StateParams,
   xfHost : ForwardedHosts, host : Hosts, xfProto : ForwardedProtos]

\* new URL(req.url, ORIGIN) in auth.js: ORIGIN is an absolute https URL and
\* req.url a path with a query, so the parse succeeds.
UrlParses_A(req) == TRUE

\* new URL(req.url, baseUrl) in part_000, baseUrl = `${proto}://${host}` built
\* from the request's headers: a TypeError when baseUrl is no absolute URL
\* (empty host, or a proto that is no scheme).
UrlParses_B(req) ==
  LET host == IF Truthy(req.xfHost) THEN req.xfHost
              ELSE IF Truthy(req.host) THEN req.host ELSE ""
      proto == IF Truthy(req.xfProto) THEN req.xfProto ELSE "https"
  IN  host # "" /\ proto \in {"https", "http"}

(* ------------------------- provider's answers -------------------------- *)

TextOrUndefined(chars) == Texts(chars) \cup {Undefined}

\* The objects tokenRes.json() resolves to.
TokenData ==
  [access_token : TextOrUndefined(TokenChars),
   error : TextOrUndefined(ErrorChars),
   error_description : TextOrUndefined(DescrChars)]

NoData ==
  [access_token |-> Undefined, error |-> Undefined,
   error_description |-> Undefined]

\* err.message of what fetch() or tokenRes.json() rejects with.
FetchErrors == {"fetch failed", "getaddrinfo ENOTFOUND github.com"}
JsonErrors == {"Unexpected token < in JSON at position 0"}
NullError == "Cannot read properties of null (reading 'error')"

(* ------------------------------ responses ----------------------------- *)

NoLocation ==
  [endpoint |-> Absent, client_id |-> Absent, scope |-> Absent,
   state |-> Absent, redirect_uri |-> Absent]
NoBody == [tpl |-> "none", holes |-> <<>>]
NoResponse ==
  [status |-> 0, contentType |-> Absent, location |-> NoLocation,
   body |-> NoBody]
NoPost ==
  [sent |-> FALSE, url |-> Absent, client_id |-> Absent,
   client_secret |-> Absent, code |-> Absent, redirect_uri |-> Absent]

(* ------------------- the handler of src/api/auth.js -------------------- *)

\* Step 1: the 302 to GitHub; uuid is what crypto.randomUUID() returns.
redirect_A(e, req, uuid) ==
  [status |-> 302, contentType |-> Absent,
   location |->
     [endpoint |-> AuthorizeEndpoint,
      client_id |-> Str(e.GITHUB_CLIENT_ID),
      scope |-> "repo,user",
      state |-> IF Truthy(req.state) THEN req.state ELSE uuid,
      redirect_uri |-> ORIGIN_A(e) \o "/api/auth"],
   body |-> NoBody]

\* Step 2: the body of the POST to the token endpoint (JSON.stringify leaves
\* an undefined member out).
tokenRequest_A(e, req) ==
  [sent |-> TRUE, url |-> TokenEndpoint,
   client_id |-> e.GITHUB_CLIENT_ID,
   client_secret |-> e.GITHUB_CLIENT_SECRET,
   code |-> req.code, redirect_uri |-> Absent]

\* if (tokenData.error) return res.status(401).send(...)
errorResponse_A(data) ==
  [status |-> 401, contentType |-> Absent, location |-> NoLocation,
   body |-> [tpl |-> "A401", holes |-> <<JSONStringify(data.error)>>]]

\* Step 3: res.status(200).send(...) with the handshake script.
successResponse_A(data) ==
  [status |-> 200, contentType |-> "text/html", location |-> NoLocation,
   body |-> [tpl |-> "A200",
             holes |-> <<JSONStringifyTokenObj(data.access_token)>>]]

\* catch (err): res.status(500).send('Authentication failed. ...')
failureResponse_A(message) ==
  [status |-> 500, contentType |-> Absent, location |-> NoLocation,
   body |-> [tpl |-> "A500", holes |-> <<>>]]

\* classify_A without the test of tokenData.error.
classify_A_unchecked(data) == successResponse_A(data)

\* What the handler does with the object tokenRes.json() resolved to.
classify_A(data) ==
  IF TruthyText(data.error) THEN errorResponse_A(data)
  ELSE successResponse_A(data)

(* ----------------- the handler of src/unnamed/part_000 ----------------- *)

\* redirect_B with the secret passed where the client id belongs.
redirect_B_secret(e, req, uuid) ==
  [status |-> 302, contentType |-> Absent,
   location |->
     [endpoint |-> AuthorizeEndpoint,
      client_id |-> Str(e.GITHUB_CLIENT_SECRET),
      scope |-> "repo,user",
      state |-> IF Truthy(req.state) THEN req.state ELSE Absent,
      redirect_uri |-> ORIGIN_B(e) \o "/api/auth"],
   body |-> NoBody]

\* Step 1: the 302 to GitHub; state is set only when the caller gave one.
redirect_B(e, req, uuid) ==
  [status |-> 302, contentType |-> Absent,
   location |->
     [endpoint |-> AuthorizeEndpoint,
      client_id |-> Str(e.GITHUB_CLIENT_ID),
      scope |-> "repo,user",
      state |-> IF Truthy(req.state) THEN req.state ELSE Absent,
      redirect_uri |-> CALLBACK_B(e)],
   body |-> NoBody]

\* Step 2: the body of the POST to the token endpoint.
tokenRequest_B(e, req) ==
  [sent |-> TRUE, url |-> TokenEndpoint,
   client_id |-> e.GITHUB_CLIENT_ID,
   client_secret |-> e.GITHUB_CLIENT_SECRET,
   code |-> req.code, redirect_uri |-> CALLBACK_B(e)]

\* tokenData.error_description || tokenData.error
errorText_B(data) ==
  IF TruthyText(data.error_description) THEN data.error_description
  ELSE data.error

\* if (tokenData.error) ... res.status(401).send(...): the text goes, as it
\* is, into a double-quoted script literal and into the visible paragraph.
errorResponse_B(data) ==
  [status |-> 401, contentType |-> "text/html", location |-> NoLocation,
   body |-> [tpl |-> "B401",
             holes |-> <<Interp(errorText_B(data)),
                         Interp(errorText_B(data))>>]]

\* Step 3: res.status(200).send(...), const token = ${JSON.stringify(token)}.
successResponse_B(data) ==
  [status |-> 200, contentType |-> "text/html", location |-> NoLocation,
   body |-> [tpl |-> "B200",
             holes |-> <<Interp(JSONStringify(data.access_token))>>]]

\* catch (err): the 500 page shows err.message.
failureResponse_B(message) ==
  [status |-> 500, contentType |-> "text/html", location |-> NoLocation,
   body |-> [tpl |-> "B500", holes |-> <<(<<message>>)>>]]

classify_B(data) ==
  IF TruthyText(data.error) THEN errorResponse_B(data)
  ELSE successResponse_B(data)

(* ---------------- the pages' scripts, run by the browser --------------- *)

Wildcard == "*"
\* Origins of the windows that post messages to the popup.
Origins == {"https://renso-foundation.vercel.app", "https://evil.example"}

ErrorTag == "authorization:github:error:"
SuccessTag == "authorization:github:success:"
Authorizing == <<"authorizing:github">>

Message(data, target, replyTo) ==
  [data |-> data, target |-> target, replyTo |-> replyTo]

\* The popup window: the statements of the page's script still to run (the
\* load event, which fires once the script has run, is the last of them),
\* whether the load event has fired, whether receiveMessage is registered,
\* the message the page posts as the outcome, and the messages posted so far.
NoPopup ==
  [script |-> <<>>, loaded |-> FALSE, listening |-> FALSE, closed |-> FALSE,
   msg |-> <<>>, outbox |-> <<>>]
\* A document without a script, or whose script is a SyntaxError: nothing
\* runs before the load event.
InertPopup == [NoPopup EXCEPT !.script = <<"load">>]

\* auth.js 401 page: one single-quoted literal posted to '*'.
page401_A(holes) ==
  LET src == <<ErrorTag>> \o holes[1]
  IN  IF LiteralOK(src, SQ)
      THEN [InertPopup EXCEPT
              !.msg = LiteralValue(src),
              !.script = <<"postError", "load">>]
      ELSE InertPopup

\* auth.js 200 page, with the listener registered after the announcement.
page200_A_late(holes) ==
  LET src == <<SuccessTag>> \o holes[1]
  IN  IF LiteralOK(src, SQ)
      THEN [InertPopup EXCEPT
              !.msg = LiteralValue(src),
              !.script = <<"postAuthorizing", "addEventListener", "load">>]
      ELSE InertPopup

\* auth.js 200 page: addEventListener (line 69), then the announcement
\* (line 70); the listener replies with a single-quoted literal.
page200_A(holes) ==
  LET src == <<SuccessTag>> \o holes[1]
  IN  IF LiteralOK(src, SQ)
      THEN [InertPopup EXCEPT
              !.msg = LiteralValue(src),
              !.script = <<"addEventListener", "postAuthorizing", "load">>]
      ELSE InertPopup

\* part_000 401 page: JSON.stringify of a double-quoted literal, posted to
\* '*', then window.close().
page401_B(holes) ==
  IF LiteralOK(holes[1], DQ)
  THEN [InertPopup EXCEPT
          !.msg = <<ErrorTag>> \o JSONStringify(LiteralValue(holes[1])),
          !.script = <<"postError", "close", "load">>]
  ELSE InertPopup

\* The value of the expression ${JSON.stringify(token)} put into the script:
\* the identifier undefined, or a double-quoted literal.
tokenConst_B(src) ==
  IF src = <<"undefined">> THEN Undefined
  ELSE LiteralValue(SubSeq(src, 2, Len(src) - 1))

tokenConstOK_B(src) ==
  \/ src = <<"undefined">>
  \/ /\ Len(src) >= 2 /\ Head(src) = DQ /\ src[Len(src)] = DQ
     /\ LiteralOK(SubSeq(src, 2, Len(src) - 1), DQ)

\* part_000 200 page: msg is built in the page from the token constant; then
\* addEventListener (line 76), then the announcement (line 77).
page200_B(holes) ==
  IF tokenConstOK_B(holes[1])
  THEN [InertPopup EXCEPT
          !.msg = <<SuccessTag>>
                    \o JSONStringifyTokenObj(tokenConst_B(holes[1])),
          !.script = <<"addEventListener", "postAuthorizing", "load">>]
  ELSE InertPopup

\* The popup once the browser has parsed the response's body, before its
\* script runs.
LoadPage(body) ==
  CASE body.tpl = "A401" -> page401_A(body.holes)
    [] body.tpl = "A200" -> page200_A(body.holes)
    [] body.tpl = "B401" -> page401_B(body.holes)
    [] body.tpl = "B200" -> page200_B(body.holes)
    [] OTHER -> InertPopup

\* The page's script runs its next statement.
runStatement(p) ==
  LET s == Head(p.script)
      q == [p EXCEPT !.script = Tail(@)]
  IN  CASE s = "addEventListener" -> [q EXCEPT !.listening = TRUE]
        [] s = "postAuthorizing" ->
             [q EXCEPT !.outbox = Append(@, Message(Authorizing, Wildcard,
                                                    Absent))]
        [] s = "postError" ->
             [q EXCEPT !.outbox = Append(@, Message(p.msg, Wildcard, Absent))]
        [] s = "close" -> [q EXCEPT !.closed = TRUE]
        [] OTHER -> [q EXCEPT !.loaded = TRUE]

\* receiveMessage with the reply broadcast instead of addressed to e.origin.
receiveMessage_wildcard(p, origin) ==
  [p EXCEPT !.outbox = Append(@, Message(p.msg, Wildcard, origin))]

\* function receiveMessage(e) of both variants.
receiveMessage(p, origin) ==
  [p EXCEPT !.outbox = Append(@, Message(p.msg, origin, origin))]

(* ------------------------------- state -------------------------------- *)

VARIABLES
  env,      \* process.env as the module read it when it was loaded
  variant,  \* "A": src/api/auth.js is deployed, "B": src/unnamed/part_000
  inv,      \* the handler invocation: its locals, outbound call and response
  popup,    \* the popup window that shows the invocation's response
  issued,   \* provider side: code -> redirect_uri of the authorization
            \* request that obtained it
  redeemed, \* provider side: code -> the token granted for it (Undefined
            \* while the code has not been exchanged)
  resent,   \* client side: the callback request of this navigation and how
            \* many times it has been sent again
  invs,     \* invocations that run concurrently: id -> invocation
  wire      \* id -> what that invocation's pending await settles with

\* The variables of the replay scenario.
replay == <<redeemed, resent>>
\* The variables of the concurrent invocations.
concurrent == <<invs, wire>>

vars == <<env, variant, inv, popup, issued, replay, concurrent>>

NoReply == [kind |-> "none", message |-> Absent, data |-> NoData]

\* An invocation that has not started.  code and state are the request's
\* query parameters, posts counts the calls of fetch and sends the responses
\* sent.
Idle ==
  [pc |-> "idle", code |-> Absent, state |-> Absent, post |-> NoPost,
   posts |-> 0, reply |-> NoReply, res |-> NoResponse, sends |-> 0,
   thrown |-> Absent, logged |-> Absent]

\* The invocations in flight at the same time.
InvIds == {"i1", "i2"}

NoRequest ==
  [code |-> Absent, state |-> Absent, xfHost |-> Absent, host |-> Absent,
   xfProto |-> Absent]
NoResend == [sent |-> FALSE, req |-> NoRequest, times |-> 0]

Environments ==
  [GITHUB_CLIENT_ID : {"Iv1.clientid"},
   GITHUB_CLIENT_SECRET : {"s3cr3t"},
   VERCEL_URL : DeployHosts,
   PRODUCTION_URL : ProductionUrls]

Init ==
  /\ env \in Environments
  /\ variant \in {"A", "B"}
  /\ inv = Idle
  /\ popup = NoPopup
  /\ issued = [c \in Codes |-> Absent]
  /\ redeemed = [c \in Codes |-> Undefined]
  /\ resent = NoResend
  /\ invs = [j \in InvIds |-> Idle]
  /\ wire = [j \in InvIds |-> NoReply]

(* --------------------- export default async handler -------------------- *)

\* auth.js lines 16-41: from the call to the first await.
handlerStart_A(e, req, uuid) ==
  IF ~UrlParses_A(req)
  THEN [Idle EXCEPT !.pc = "crashed", !.code = req.code,
                    !.state = req.state, !.thrown = "Invalid URL"]
  ELSE IF ~Truthy(req.code)
  THEN [Idle EXCEPT !.pc = "done", !.code = req.code, !.state = req.state,
                    !.res = redirect_A(e, req, uuid), !.sends = 1]
  ELSE [Idle EXCEPT !.pc = "fetching", !.code = req.code,
                    !.state = req.state, !.post = tokenRequest_A(e, req),
                    !.posts = 1]

\* part_000 lines 15-48: from the call to the first await.
handlerStart_B(e, req, uuid) ==
  IF ~UrlParses_B(req)
  THEN [Idle EXCEPT !.pc = "crashed", !.code = req.code,
                    !.state = req.state, !.thrown = "Invalid URL"]
  ELSE IF ~Truthy(req.code)
  THEN [Idle EXCEPT !.pc = "done", !.code = req.code, !.state = req.state,
                    !.res = redirect_B(e, req, uuid), !.sends = 1]
  ELSE [Idle EXCEPT !.pc = "fetching", !.code = req.code,
                    !.state = req.state, !.post = tokenRequest_B(e, req),
                    !.posts = 1]

\* auth.js lines 76-79, the catch block: console.error, then the 500.
handlerCatch_A(i, kind, message) ==
  [i EXCEPT !.pc = "done",
            !.reply = [kind |-> kind, message |-> message, data |-> NoData],
            !.logged = message,
            !.res = failureResponse_A(message),
            !.sends = @ + 1]

\* part_000 lines 81-87, the catch block: console.error, then the 500.
handlerCatch_B(i, kind, message) ==
  [i EXCEPT !.pc = "done",
            !.reply = [kind |-> kind, message |-> message, data |-> NoData],
            !.logged = message,
            !.res = failureResponse_B(message),
            !.sends = @ + 1]

\* auth.js lines 43-75: the try block once tokenRes.json() resolved to data.
handlerResume_A(i, data) ==
  [i EXCEPT !.pc = "done",
            !.reply = [kind |-> "object", message |-> Absent, data |-> data],
            !.res = classify_A(data),
            !.sends = @ + 1]

\* part_000 lines 50-80: the try block once tokenRes.json() resolved to data.
handlerResume_B(i, data) ==
  [i EXCEPT !.pc = "done",
            !.reply = [kind |-> "object", message |-> Absent, data |-> data],
            !.res = classify_B(data),
            !.sends = @ + 1]

\* The deployed variant's catch block.
handlerCatch(kind, message) ==
  IF variant = "A" THEN handlerCatch_A(inv, kind, message)
  ELSE handlerCatch_B(inv, kind, message)

\* A request of the popup's navigation arrives (the platform calls
\* handler(req, res)): its first request, or the request that follows a 302
\* (the browser went to the provider and came back).
Request(req, uuid) ==
  /\ \/ inv.pc = "idle"
     \/ inv.pc = "done" /\ inv.res.status = 302
  /\ inv' = IF variant = "A" THEN handlerStart_A(env, req, uuid)
            ELSE handlerStart_B(env, req, uuid)
  /\ popup' = NoPopup
  /\ UNCHANGED <<env, variant, issued, replay, concurrent>>

\* await fetch(...) rejects: network or transport failure.
FetchRejects(message) ==
  /\ inv.pc = "fetching"
  /\ inv' = handlerCatch("reject", message)
  /\ UNCHANGED <<env, variant, popup, issued, replay, concurrent>>

\* await tokenRes.json() rejects: the provider's body is no JSON.
JsonRejects(message) ==
  /\ inv.pc = "fetching"
  /\ inv' = handlerCatch("badjson", message)
  /\ UNCHANGED <<env, variant, popup, issued, replay, concurrent>>

\* await tokenRes.json() resolves to null: tokenData.error throws a TypeError
\* inside the try block.
JsonNull ==
  /\ inv.pc = "fetching"
  /\ inv' = handlerCatch("null", NullError)
  /\ UNCHANGED <<env, variant, popup, issued, replay, concurrent>>

\* await tokenRes.json() resolves to an object.
JsonResolves(data) ==
  /\ inv.pc = "fetching"
  /\ inv' = IF variant = "A" THEN handlerResume_A(inv, data)
            ELSE handlerResume_B(inv, data)
  /\ UNCHANGED <<env, variant, popup, issued, replay, concurrent>>

(* ------------------------ browser and provider ------------------------ *)

\* The popup navigates to the response: the browser parses its body.
PopupLoads ==
  /\ inv.pc = "done"
  /\ inv.res.status \in {200, 401, 500}
  /\ ~popup.loaded
  /\ popup.script = <<>>
  /\ popup' = LoadPage(inv.res.body)
  /\ UNCHANGED <<env, variant, inv, issued, replay, concurrent>>

\* The page's script runs, one statement at a time and to completion.
ScriptStep ==
  /\ popup.script # <<>>
  /\ popup' = runStatement(popup)
  /\ UNCHANGED <<env, variant, inv, issued, replay, concurrent>>

\* A message event from a window of origin o reaches the popup's listener;
\* events are dispatched only when no script is running.
MessageEvent(o) ==
  /\ popup.script = <<>>
  /\ popup.listening
  /\ ~popup.closed
  /\ Len(popup.outbox) <= MaxRecv
  /\ popup' = receiveMessage(popup, o)
  /\ UNCHANGED <<env, variant, inv, issued, replay, concurrent>>

\* The browser follows the 302; the provider issues code c, bound to the
\* redirect_uri of that authorization request.
Authorize(c) ==
  /\ inv.pc = "done"
  /\ inv.res.status = 302
  /\ issued[c] = Absent
  /\ issued' = [issued EXCEPT ![c] = inv.res.location.redirect_uri]
  /\ UNCHANGED <<env, variant, inv, popup, replay, concurrent>>

\* A new deployment: the module is loaded again, with the VERCEL_URL of that
\* deployment.  The module's constants are read when an invocation starts,
\* so a deployment is modelled where a later request can observe it: before
\* the navigation's first request and between its 302 and its callback.
Redeploy(host) ==
  /\ host # env.VERCEL_URL
  /\ \/ inv.pc = "idle"
     \/ inv.pc = "done" /\ inv.res.status = 302
  /\ env' = [env EXCEPT !.VERCEL_URL = host]
  /\ UNCHANGED <<variant, inv, popup, issued, replay, concurrent>>

Next ==
  \/ \E req \in Requests, uuid \in UUIDs : Request(req, uuid)
  \/ \E m \in FetchErrors : FetchRejects(m)
  \/ \E m \in JsonErrors : JsonRejects(m)
  \/ JsonNull
  \/ \E data \in TokenData : JsonResolves(data)
  \/ PopupLoads
  \/ ScriptStep
  \/ \E o \in Origins : MessageEvent(o)
  \/ \E c \in Codes : Authorize(c)
  \/ \E host \in DeployHosts : Redeploy(host)

Spec == Init /\ [][Next]_vars

(* ------------------ deployments with unset credentials ---------------- *)

\* process.env of a deployment where GITHUB_CLIENT_ID or
\* GITHUB_CLIENT_SECRET may be unset: the module reads them into constants
\* when it is loaded and does nothing else with them.
AnyEnvironments ==
  [GITHUB_CLIENT_ID : {Absent, "Iv1.clientid"},
   GITHUB_CLIENT_SECRET : {Absent, "s3cr3t"},
   VERCEL_URL : DeployHosts,
   PRODUCTION_URL : ProductionUrls]

InitAnyConfig ==
  /\ env \in AnyEnvironments
  /\ variant \in {"A", "B"}
  /\ inv = Idle
  /\ popup = NoPopup
  /\ issued = [c \in Codes |-> Absent]
  /\ redeemed = [c \in Codes |-> Undefined]
  /\ resent = NoResend
  /\ invs = [j \in InvIds |-> Idle]
  /\ wire = [j \in InvIds |-> NoReply]

SpecAnyConfig == InitAnyConfig /\ [][Next]_vars

(* ------------- replays against a provider of single-use codes ---------- *)

\* The deployed variant's handler, from its call to its first await.
handlerStart(req, uuid) ==
  IF variant = "A" THEN handlerStart_A(env, req, uuid)
  ELSE handlerStart_B(env, req, uuid)

\* The deployed variant's try block once tokenRes.json() resolved to data.
handlerResume(data) ==
  IF variant = "A" THEN handlerResume_A(inv, data)
  ELSE handlerResume_B(inv, data)

\* The access tokens and the error texts of the single-use provider.
GrantedTokens == Texts({"t"}) \ {<<>>}
RejectionData ==
  [access_token : {Undefined},
   error : Texts(ErrorChars) \ {<<>>},
   error_description : TextOrUndefined(DescrChars)]

\* A request of the navigation arrives, as in Request; the client keeps a
\* callback request to send it again later.
FirstRequest(req, uuid) ==
  /\ \/ inv.pc = "idle"
     \/ inv.pc = "done" /\ inv.res.status = 302
  /\ inv' = handlerStart(req, uuid)
  /\ popup' = NoPopup
  /\ resent' = IF Truthy(req.code)
               THEN [sent |-> TRUE, req |-> req, times |-> 0]
               ELSE NoResend
  /\ UNCHANGED <<env, variant, issued, redeemed, concurrent>>

\* The provider answers the POST for a code it issued and has not yet
\* exchanged: it grants token tok and the code is spent.
Grant(tok) ==
  /\ inv.pc = "fetching"
  /\ inv.post.code \in Codes
  /\ issued[inv.post.code] # Absent
  /\ redeemed[inv.post.code] = Undefined
  /\ inv' = handlerResume([NoData EXCEPT !.access_token = tok])
  /\ redeemed' = [redeemed EXCEPT ![inv.post.code] = tok]
  /\ UNCHANGED <<env, variant, popup, issued, resent, concurrent>>

\* The provider answers the POST for a code it never issued or has already
\* exchanged: it reports an error.
Reject(data) ==
  /\ inv.pc = "fetching"
  /\ \/ inv.post.code \notin Codes
     \/ issued[inv.post.code] = Absent
     \/ redeemed[inv.post.code] # Undefined
  /\ inv' = handlerResume(data)
  /\ UNCHANGED <<env, variant, popup, issued, replay, concurrent>>

\* The callback request that has been answered is sent again, unchanged.
Replay(uuid) ==
  /\ inv.pc = "done"
  /\ inv.post.sent
  /\ resent.sent
  /\ resent.times < MaxReplays
  /\ inv' = handlerStart(resent.req, uuid)
  /\ popup' = NoPopup
  /\ resent' = [resent EXCEPT !.times = @ + 1]
  /\ UNCHANGED <<env, variant, issued, redeemed, concurrent>>

NextSingleUse ==
  \/ \E req \in Requests, uuid \in UUIDs : FirstRequest(req, uuid)
  \/ \E c \in Codes : Authorize(c)
  \/ \E tok \in GrantedTokens : Grant(tok)
  \/ \E data \in RejectionData : Reject(data)
  \/ \E uuid \in UUIDs : Replay(uuid)
  \/ PopupLoads
  \/ ScriptStep
  \/ \E o \in Origins : MessageEvent(o)

SpecSingleUse == Init /\ [][NextSingleUse]_vars

(* ------------------------------- claims -------------------------------- *)

\* The invocation has sent its response.
Responded == inv.pc = "done"
\* The request carried an authorization code.
Callback == Truthy(inv.code)
\* tokenRes.json() resolved to an object.
GotObject == inv.reply.kind = "object"
tokenData == inv.reply.data
\* The provider's object reports an error (a non-empty error field).
ProviderError == GotObject /\ TruthyText(tokenData.error)
\* The provider's object holds an access_token.
HasToken == GotObject /\ tokenData.access_token # Undefined

Outbox == {popup.outbox[k] : k \in 1..Len(popup.outbox)}
\* The messages that carry the outcome: all but the Authorizing announcement.
OutcomeMessages == {m \in Outbox : m.data # Authorizing}

\* The Success message for token tok, as the opener parses it.
SuccessMessage(tok) == <<SuccessTag>> \o JSONStringifyTokenObj(tok)
\* The Error message for text d.
ErrorMessage(d) == <<ErrorTag>> \o JSONStringify(d)

\* A message is a reply to a received message, addressed to its origin.
AddressedToSender(m) ==
  m.replyTo \in Origins /\ m.target = m.replyTo /\ m.target # Wildcard

\* The page can relay the token tok: its listener is registered and answers
\* with the Success message for tok.
RelaysToken(tok) == popup.listening /\ popup.msg = SuccessMessage(tok)

PlainToken == tokenData.access_token # Undefined
              /\ Range(tokenData.access_token) \cap {DQ, SQ, BS} = {}

TextsOfBody == {inv.res.body.holes[k] : k \in 1..Len(inv.res.body.holes)}

\* C9: the client secret goes into the POST to the token endpoint and
\* nowhere else: it is in no text put into a response body, in no parameter
\* of the redirect's Location, and in no cross-window message.
C9_SecretStaysServerSide ==
  LET secret == env.GITHUB_CLIENT_SECRET IN
    /\ \A t \in TextsOfBody : secret \notin Range(t)
    /\ \A f \in DOMAIN inv.res.location : inv.res.location[f] # secret
    /\ \A m \in Outbox : secret \notin Range(m.data)
    /\ secret \notin Range(popup.msg)
    /\ inv.post.sent =>
         inv.post.url = TokenEndpoint /\ inv.post.client_secret = secret

\* C9 witness: the secret was posted to the provider, the exchange failed
\* with an exception, and the 500 page has been shown.
C9_Witness ==
  /\ inv.post.sent /\ inv.post.client_secret = env.GITHUB_CLIENT_SECRET
  /\ inv.res.status = 500
  /\ popup.loaded

\* C2 (as claimed): every outcome message, Success or Error, is a reply to a
\* message received from the opener and is addressed to that message's
\* origin; only the Authorizing announcement is posted to '*'.
C2_OutcomeOnlyToSender ==
  \A m \in OutcomeMessages : AddressedToSender(m)

\* C3 (as claimed): when the provider's object holds a (non-empty) error
\* field, the response is a 401, its page relays a message tagged
\* 'authorization:github:error:' that contains the value of that field, and
\* the access token is nowhere in the response.
C3_ErrorRelayed ==
  (Responded /\ Callback /\ ProviderError) =>
    /\ inv.res.status = 401
    /\ popup.loaded =>
         \E m \in Outbox :
           /\ Head(m.data) = ErrorTag
           /\ Contains(m.data, tokenData.error)
    /\ (HasToken /\ "t" \in Range(tokenData.access_token)) =>
         \A t \in TextsOfBody : ~Contains(t, tokenData.access_token)

\* C4 (as claimed): a request without a code is answered with a 302 whose
\* Location carries a state: the caller's, verbatim, when the caller gave
\* one, and a newly generated non-empty one otherwise.
C4_StateAlwaysSent ==
  (Responded /\ inv.code = Absent) =>
    /\ inv.res.status = 302
    /\ Truthy(inv.state) => inv.res.location.state = inv.state
    /\ inv.state = Absent => inv.res.location.state \in UUIDs

\* C5 (as claimed): the token-exchange POST for a code carries a
\* redirect_uri, identical to the one of the redirect that obtained the code.
C5_RedirectUriBound ==
  (inv.post.sent /\ inv.post.code \in Codes) =>
    (issued[inv.post.code] # Absent =>
       inv.post.redirect_uri = issued[inv.post.code])

\* The callback URL registered with the provider: the service's stable
\* public address (part_000 takes it from PRODUCTION_URL), plus /api/auth.
RegisteredCallback ==
  (IF variant = "B" /\ Truthy(env.PRODUCTION_URL) THEN env.PRODUCTION_URL
   ELSE DefaultOrigin) \o "/api/auth"

\* C6 (as claimed): every redirect's redirect_uri is the configured callback
\* URL, the same for every request and every deployment: it equals the
\* registered URL and the redirect_uri of any earlier redirect.
C6_CallbackUrlStable ==
  (Responded /\ inv.res.status = 302) =>
    /\ inv.res.location.redirect_uri = RegisteredCallback
    /\ \A c \in Codes :
         issued[c] # Absent => inv.res.location.redirect_uri = issued[c]

\* C7 (as claimed): no exception leaves the handler, whatever the request;
\* a transport failure or malformed JSON yields a 500, a provider-reported
\* error a 401.
C7_NothingPropagates ==
  /\ inv.pc # "crashed"
  /\ inv.thrown = Absent
  /\ (Responded /\ inv.reply.kind \in {"reject", "badjson"}) =>
       inv.res.status = 500
  /\ (Responded /\ ProviderError) => inv.res.status = 401

Exceptions == FetchErrors \cup JsonErrors \cup {NullError}

\* The 500 response the deployed variant sends for an exception.
FailureResponse(message) ==
  IF variant = "A" THEN failureResponse_A(message)
  ELSE failureResponse_B(message)

\* C8 (as claimed): the body of a 500 does not depend on the exception: the
\* body sent is the body the handler sends for any other exception.
C8_GenericFailureBody ==
  (Responded /\ inv.res.status = 500) =>
    \A m \in Exceptions : FailureResponse(m).body = inv.res.body

\* C10 (as claimed): when the provider's object holds error and
\* error_description, the error text in the 401 body and the message relayed
\* to the opener are the provider's error_description.
C10_DescriptionShown ==
  (Responded /\ Callback /\ ProviderError
     /\ TruthyText(tokenData.error_description)) =>
    /\ inv.res.status = 401
    /\ \A t \in TextsOfBody :
         t \in {tokenData.error_description,
                JSONStringify(tokenData.error_description)}
    /\ popup.loaded =>
         \E m \in Outbox : m.data = ErrorMessage(tokenData.error_description)

(* ----------------------- concurrent invocations ------------------------ *)

ConcurrentCodes == {"c1", "c2"}
ConcurrentRequests ==
  [code : {Absent} \cup ConcurrentCodes, state : {Absent, "s1"},
   xfHost : {"renso-foundation.vercel.app"}, host : {Absent},
   xfProto : ForwardedProtos]

\* What the provider answers to the exchange of code c: the token of that
\* code, or an error about that code.
AnswersFor(c) ==
  {[NoData EXCEPT !.access_token = <<"token-" \o c>>],
   [NoData EXCEPT !.error = <<"error-" \o c>>]}

\* The value the pending await of invocation j settles with, taken from a
\* variable shared by all invocations: the latest reply on the wire.
Settled_shared(j) ==
  IF \E k \in InvIds \ {j} : wire[k] # NoReply
  THEN wire[CHOOSE k \in InvIds \ {j} : wire[k] # NoReply]
  ELSE wire[j]

\* The value the pending await of invocation j settles with: tokenRes and
\* tokenData are constants local to the invocation.
Settled(j) == wire[j]

\* The platform calls handler(req, res) while other invocations run.
Invoke(j, req, uuid) ==
  /\ invs[j].pc = "idle"
  /\ invs' = [invs EXCEPT ![j] =
               IF variant = "A" THEN handlerStart_A(env, req, uuid)
               ELSE handlerStart_B(env, req, uuid)]
  /\ UNCHANGED <<env, variant, inv, popup, issued, replay, wire>>

\* The provider answers the POST of invocation j.
ProviderAnswers(j, data) ==
  /\ invs[j].pc = "fetching"
  /\ wire[j] = NoReply
  /\ data \in AnswersFor(invs[j].post.code)
  /\ wire' = [wire EXCEPT ![j] =
               [kind |-> "object", message |-> Absent, data |-> data]]
  /\ UNCHANGED <<env, variant, inv, popup, issued, replay, invs>>

\* The POST of invocation j fails in transport.
TransportFails(j, message) ==
  /\ invs[j].pc = "fetching"
  /\ wire[j] = NoReply
  /\ wire' = [wire EXCEPT ![j] =
               [kind |-> "reject", message |-> message, data |-> NoData]]
  /\ UNCHANGED <<env, variant, inv, popup, issued, replay, invs>>

\* Invocation j continues after its await and sends its response.
Continue(j) ==
  /\ invs[j].pc = "fetching"
  /\ wire[j] # NoReply
  /\ LET r == Settled(j) IN
       invs' = [invs EXCEPT ![j] =
                 IF r.kind = "object"
                 THEN IF variant = "A" THEN handlerResume_A(invs[j], r.data)
                      ELSE handlerResume_B(invs[j], r.data)
                 ELSE IF variant = "A"
                      THEN handlerCatch_A(invs[j], r.kind, r.message)
                      ELSE handlerCatch_B(invs[j], r.kind, r.message)]
  /\ UNCHANGED <<env, variant, inv, popup, issued, replay, wire>>

NextConcurrent ==
  \/ \E j \in InvIds, req \in ConcurrentRequests, uuid \in UUIDs :
       Invoke(j, req, uuid)
  \/ \E j \in InvIds, data \in UNION {AnswersFor(c) : c \in ConcurrentCodes} :
       ProviderAnswers(j, data)
  \/ \E j \in InvIds, m \in FetchErrors : TransportFails(j, m)
  \/ \E j \in InvIds : Continue(j)

SpecConcurrent == Init /\ [][NextConcurrent]_vars

\* The response the deployed variant sends for what an await settled with.
ResponseTo(reply) ==
  IF reply.kind = "object"
  THEN IF variant = "A" THEN classify_A(reply.data) ELSE classify_B(reply.data)
  ELSE FailureResponse(reply.message)

\* The texts put into the body of invocation j's response.
TextsOfBodyOf(j) ==
  {invs[j].res.body.holes[k] : k \in 1..Len(invs[j].res.body.holes)}

\* C16: under every interleaving of two invocations, an invocation that has
\* answered a callback request consumed the reply to its own POST, which is
\* the provider's answer for its own code; its response is the one the
\* handler builds from that reply alone; and the token or error the provider
\* returned for the other invocation's code is nowhere in its body.
C16_InvocationsIsolated ==
  \A j \in InvIds :
    (invs[j].pc = "done" /\ invs[j].post.sent) =>
      /\ invs[j].reply = wire[j]
      /\ invs[j].reply.kind = "object" =>
           invs[j].reply.data \in AnswersFor(invs[j].post.code)
      /\ invs[j].res = ResponseTo(wire[j])
      /\ \A k \in InvIds \ {j} :
           (invs[k].post.sent /\ invs[k].post.code # invs[j].post.code) =>
             \A t \in TextsOfBodyOf(j), d \in AnswersFor(invs[k].post.code) :
               /\ ~Contains(t, d.access_token)
               /\ ~Contains(t, d.error)

\* C16 witness: two invocations have exchanged different codes and each has
\* sent the page with the token of its own code.
C16_Witness ==
  /\ invs["i1"].pc = "done" /\ invs["i2"].pc = "done"
  /\ invs["i1"].post.code = "c1" /\ invs["i2"].post.code = "c2"
  /\ invs["i1"].res.status = 200 /\ invs["i2"].res.status = 200
  /\ \E t \in TextsOfBodyOf("i1") : Contains(t, <<"token-c1">>)
  /\ \E t \in TextsOfBodyOf("i2") : Contains(t, <<"token-c2">>)

\* The invocation has started.
Started == inv.pc # "idle"

\* C14 (as claimed): a popup navigation delivers its outcome once: after the
\* outcome message has been posted no further outcome message is posted,
\* whatever messages the popup receives.
C14_OutcomeDeliveredOnce ==
  Cardinality({k \in 1..Len(popup.outbox) :
                 popup.outbox[k].data # Authorizing}) <= 1

\* C15 (as claimed): an invocation for a request without a code calls fetch
\* never and its response posts no cross-window message; an invocation for a
\* request with a code calls fetch exactly once, on the token endpoint, also
\* when the call fails, and never answers with a redirect.
C15_OnePostPerCallback ==
  /\ (Started /\ ~Callback) =>
       /\ inv.posts = 0 /\ ~inv.post.sent
       /\ popup.outbox = <<>>
  /\ (Started /\ Callback) =>
       /\ inv.posts = 1
       /\ inv.post.sent /\ inv.post.url = TokenEndpoint
       /\ inv.res.status # 302

\* C17 (as claimed): for a callback request nothing is sent while the
\* provider call is pending; an invocation that is no longer running has
\* sent exactly one response, with status 302, 200, 401 or 500; and a
\* provider call that failed in transport (a timeout included) is answered
\* with a 500.
C17_AlwaysAnswered ==
  /\ (Callback /\ inv.pc = "fetching") =>
       inv.sends = 0 /\ inv.res = NoResponse
  /\ (Started /\ inv.pc # "fetching") =>
       inv.sends = 1 /\ inv.res.status \in {302, 200, 401, 500}
  /\ (Started /\ inv.reply.kind = "reject") => inv.res.status = 500

\* C18 (as claimed): a 200 with the success page is sent only when the
\* provider's object holds an access_token, and the Success message of that
\* page carries a token.
C18_SuccessHasToken ==
  (Responded /\ Callback /\ inv.res.status = 200) =>
    /\ HasToken
    /\ popup.msg # SuccessMessage(Undefined)

\* C13: in the popup of a 200 response the handshake is ordered: whenever
\* the Authorizing announcement has been posted the listener is already
\* registered, every outcome message comes after the announcement in the
\* order of posting, and every outcome message is the reply to a message
\* event the popup received.
C13_HandshakeOrdered ==
  inv.res.status = 200 =>
    /\ (\E m \in Outbox : m.data = Authorizing) => popup.listening
    /\ \A k \in 1..Len(popup.outbox) :
         popup.outbox[k].data # Authorizing =>
           /\ \E j \in 1..(k - 1) : popup.outbox[j].data = Authorizing
           /\ popup.outbox[k].replyTo \in Origins

\* C13 witness: a success popup announced itself, received a message and
\* answered it with the Success message.
C13_Witness ==
  /\ inv.res.status = 200
  /\ popup.listening
  /\ Len(popup.outbox) >= 2
  /\ popup.outbox[1].data = Authorizing
  /\ popup.outbox[2].data = SuccessMessage(<<"t">>)
  /\ popup.outbox[2].replyTo \in Origins

\* The invocation answers a callback request that has been sent before for
\* a code the provider had already exchanged for a token.
Replayed ==
  resent.times > 0 /\ inv.code \in Codes /\ redeemed[inv.code] # Undefined

\* C11: with a provider that exchanges each code at most once, an invocation
\* for a callback request sent again does not throw, and its response is a
\* 401 whose body shows the provider's error text: never a 200, never a page
\* that relays a Success message, never the token granted the first time.
C11_ReplayFails ==
  Replayed =>
    /\ inv.pc # "crashed" /\ inv.thrown = Absent
    /\ Responded =>
         /\ inv.res.status = 401
         /\ \E t \in TextsOfBody :
              \/ Contains(t, tokenData.error)
              \/ /\ TruthyText(tokenData.error_description)
                 /\ Contains(t, tokenData.error_description)
         /\ \A t \in TextsOfBody : ~Contains(t, redeemed[inv.code])
         /\ \A m \in Outbox :
              Head(m.data) # SuccessTag /\ "t" \notin Range(m.data)

\* C11 witness: the first invocation got a token for the code, the request
\* was sent again, and the second invocation answered 401.
C11_Witness ==
  /\ Replayed
  /\ redeemed[inv.code] = <<"t">>
  /\ Responded
  /\ inv.res.status = 401
  /\ popup.loaded

\* C12 (as claimed): in a deployment whose client id or client secret is
\* unset no request is served: no invocation answers with a redirect and
\* none calls the token endpoint.
C12_NoServiceWithoutCredentials ==
  (~Truthy(env.GITHUB_CLIENT_ID) \/ ~Truthy(env.GITHUB_CLIENT_SECRET)) =>
    /\ inv.res.status # 302
    /\ ~inv.post.sent

====
